---------------------------- MODULE Spec2Model ----------------------------
(***************************************************************************)
(* The grayscale conversion hosts of the repository: the BMP host and the  *)
(* stb_image host (both in src/host.c) and the OpenCV host              *)
(* (src/OpenCL-and-Docker/host.c).  Each is one main() that loads an image,*)
(* selects a GPU device, builds the rgb_to_gray kernel, uploads the pixels,*)
(* launches the kernel over a (width, height) grid, reads the result back, *)
(* saves it and releases the device resources.  The host is one thread;    *)
(* the device executes the commands of the command queue beside it.        *)
(***************************************************************************)
EXTENDS Integers, Sequences, FiniteSets, TLC

\* Bounds of the model: the largest image width, height and pixel count that
\* are loaded.
MaxW == 3
MaxH == 2
MaxPixels == 6

\* The image sizes that are loaded.
Sizes == {s \in (1 .. MaxW) \X (1 .. MaxH) : s[1] * s[2] <= MaxPixels}

\* The three programs.
Variants == {"bmp", "stb", "cv"}

\* Status codes of the OpenCL runtime (CL/cl.h) that the calls can return.
CL_SUCCESS == 0
CL_DEVICE_NOT_FOUND == -1
CL_MEM_OBJECT_ALLOCATION_FAILURE == -4
CL_OUT_OF_RESOURCES == -5
CL_OUT_OF_HOST_MEMORY == -6
CL_BUILD_PROGRAM_FAILURE == -11
CL_INVALID_VALUE == -30
CL_INVALID_MEM_OBJECT == -38
CL_INVALID_KERNEL_NAME == -46
CL_INVALID_ARG_SIZE == -51
CL_INVALID_BUFFER_SIZE == -61
CL_PLATFORM_NOT_FOUND_KHR == -1001

\* The device resources main() creates, in the order it creates them.
Resources == {"context", "queue", "program", "inputBuffer", "outputBuffer", "kernel"}

VARIABLES
    variant,        \* which of the three programs runs
    platforms,      \* environment: number of OpenCL platforms installed
    gpuDevices,     \* environment: number of GPU devices of the first platform
    pc,             \* position of main()
    err,            \* main's cl_int err
    width, height,  \* main's width, height
    channels,       \* main's channels (the value bound to kernel argument 4)
    hostLen,        \* byte length of the host pixel buffer the loader produced
    stride,         \* bytes per pixel of the data in the host pixel buffer
    pattern,        \* the picture in the image file
    fused,          \* the built kernel contracts a * b + c into one rounding
    inSize,         \* byte size the input device buffer was created with
    outSize,        \* byte size the output device buffer was created with
    res,            \* each device resource: "null", "live" or "released"
    createOrder,    \* the resources in the order they were created
    releaseOrder,   \* the resources in the order they were released
    calls,          \* the OpenCL calls issued so far, each with its result
    stderr,         \* the lines written to the error stream
    stdout,         \* the lines written to standard output
    exitCode,       \* the value passed to exit() or returned by main()
    writerInvoked,  \* the image writer was called
    outputFile,     \* the output file exists
    savedBytes,     \* bytes of the result buffer the writer put in the file
    devQueue,       \* commands enqueued on the command queue, not yet complete
    uploadDone,     \* the device completed the write of the input buffer
    wiDone,         \* the work-items of the kernel that have completed
    work,           \* what each completed work-item read and wrote
    readDone        \* the device completed the read of the output buffer

vars == <<variant, platforms, gpuDevices, pc, err, width, height, channels,
          hostLen, stride, pattern, fused, inSize, outSize, res, createOrder,
          releaseOrder, calls, stderr, stdout, exitCode, writerInvoked,
          outputFile, savedBytes, devQueue, uploadDone, wiDone, work, readDone>>

image == <<width, height, channels, hostLen, stride, pattern>>
device == <<devQueue, uploadDone, wiDone, work, readDone>>
handles == <<res, createOrder, releaseOrder>>
output == <<stderr, stdout, exitCode, writerInvoked, outputFile, savedBytes>>

----------------------------------------------------------------------------
\* Pure helpers.

\* Variation: plain assignment, err = clSetKernelArg(...), in place of |=.
BitOrOverwrite(a, b) == b
\* C's bitwise OR of two ints (two's complement), bit by bit from the low end.
RECURSIVE BitOr(_, _)
BitOr(a, b) ==
    IF a = 0 THEN b
    ELSE IF b = 0 THEN a
    ELSE IF a = -1 \/ b = -1 THEN -1
    ELSE 2 * BitOr(a \div 2, b \div 2)
         + (IF a % 2 = 1 \/ b % 2 = 1 THEN 1 ELSE 0)

\* Variation: only positive statuses count as errors.
FailedIfPositive(e) == e > CL_SUCCESS
\* checkError's test: the status is not CL_SUCCESS.
Failed(e) == e # CL_SUCCESS

\* Variation: checkError exits with status 0.
ExitOnErrorSuccess == CL_SUCCESS
\* The status checkError passes to exit().
ExitOnError == 1

\* The exit status the parent observes for a value given to exit() or
\* returned from main(): its low eight bits.
ExitStatus(c) == c % 256

\* The line checkError prints: the format string of the variant, its %s and %d.
ErrLine(v, msg, e) ==
    [fmt |-> IF v = "cv" THEN "Error: %s (error code: %d)\n"
                         ELSE "Error: %s (Error code: %d)\n",
     msg |-> msg, code |-> e]

\* The message main() gives checkError after clEnqueueNDRangeKernel.
LaunchMessage(v) == IF v = "bmp" THEN "Executing kernel" ELSE "Enqueueing NDRange kernel"

\* A line printed without arguments.
PlainLine(text) == [fmt |-> text, msg |-> "", code |-> 0]

\* The line printed before checkError when clBuildProgram failed.
BuildLogLine == [fmt |-> "Build log:\n%s\n", msg |-> "<build log>", code |-> 0]

\* Bytes of one row of a BMP pixel array, padded to a multiple of four.
RowSize(w, bits) == ((w * bits + 31) \div 32) * 4

\* The values biSizeImage of a BMP header of that geometry may hold: the
\* padded size, the packed size, or 0 (allowed for uncompressed bitmaps).
BmpSizes(w, h, bits) == {0, w * h * (bits \div 8), RowSize(w, bits) * h}

\* The work-items of the launch: globalWorkSize = {width, height}.
Grid(w, h) == (0 .. w - 1) \X (0 .. h - 1)

\* Variation: a queue created with out-of-order execution enabled.
RunnableOutOfOrder(q) == 1 .. Len(q)
\* The commands of the queue the device may execute next.  The queue is
\* created with properties 0: in-order, so only the oldest command.
Runnable(q) == IF q = <<>> THEN {} ELSE {1}

\* Variation: the context is released before the queue.
ReleaseOrderContextBeforeQueue ==
    <<"kernel", "program", "inputBuffer", "outputBuffer", "context", "queue">>
\* Variation: the kernel is released a second time, after the program.
ReleaseOrderKernelTwice ==
    <<"kernel", "program", "kernel", "inputBuffer", "outputBuffer", "queue", "context">>
\* Variation: the context is released first.
ReleaseOrderContextFirst ==
    <<"context", "kernel", "program", "inputBuffer", "outputBuffer", "queue">>
\* The order of the clRelease* calls of the cleanup.
ReleaseOrder ==
    <<"kernel", "program", "inputBuffer", "outputBuffer", "queue", "context">>

\* The size main() gives clCreateBuffer for the input buffer, which is also
\* the length of the upload: biSizeImage in the BMP host, width * height *
\* channels in the stb_image host, total() * elemSize() in the OpenCV host
\* (total() counts pixels, elemSize() is the bytes of one pixel).
InputBytes(v, w, h, n, len) ==
    CASE v = "bmp" -> len
      [] v = "stb" -> w * h * n
      [] v = "cv"  -> (w * h) * n

\* The size main() gives clCreateBuffer for the output buffer: width * height
\* in the BMP and stb_image hosts, total() / channels in the OpenCV host.
OutputBytesTimesChannels(v, w, h, n) == w * h * n
OutputBytes(v, w, h, n) ==
    CASE v = "bmp" -> w * h
      [] v = "stb" -> w * h
      [] v = "cv"  -> (w * h) \div n

\* The length of the readback: width * height (grayImage.total() in the
\* OpenCV host, a height x width matrix of one byte per pixel).
ReadBytes(w, h) == w * h

\* The size of the host result buffer: malloc(width * height), and a
\* height x width matrix of one byte per pixel in the OpenCV host.
GrayBytes(w, h) == w * h

\* The bytes of the result buffer the image writer puts in the file:
\* saveBMP does fwrite(imageData, bmpInfoHeader->biSizeImage, 1, file);
\* stbi_write_jpg takes width * height pixels of 1 component; cv::imwrite
\* takes the matrix.
SaveBytes(v, w, h, len) ==
    CASE v = "bmp" -> len
      [] v = "stb" -> w * h * 1
      [] v = "cv"  -> GrayBytes(w, h)

----------------------------------------------------------------------------
\* The pictures and the bytes the loaders make of them.

\* The pictures that are loaded: three uniform colours of the properties, a
\* uniform dark colour, and a ramp whose bytes differ from place to place.
Patterns == {"white", "black", "red", "dim", "ramp"}

\* The colour of every pixel of a uniform picture.
Colour(pat) ==
    CASE pat = "white" -> [R |-> 255, G |-> 255, B |-> 255]
      [] pat = "black" -> [R |-> 0, G |-> 0, B |-> 0]
      [] pat = "red"   -> [R |-> 255, G |-> 0, B |-> 0]
      [] pat = "dim"   -> [R |-> 85, G |-> 3, B |-> 16]

\* The weighted sum 0.299 R + 0.587 G + 0.114 B in exact arithmetic, times
\* 1000, and its integer part.
LumaTimes1000(r, g, b) == 299 * r + 587 * g + 114 * b
Luma(r, g, b) == LumaTimes1000(r, g, b) \div 1000

\* Byte c of a pixel as the loader of the variant stores it: loadBMP and
\* cv::imread deliver blue, green, red (and alpha); stbi_load delivers red,
\* green, blue.  A one-byte pixel holds the grey level.
ChannelByte(v, col, st, c) ==
    IF st = 1 THEN Luma(col.R, col.G, col.B)
    ELSE IF c = 3 THEN 255
    ELSE IF v = "stb"
         THEN (CASE c = 0 -> col.R [] c = 1 -> col.G [] c = 2 -> col.B)
         ELSE (CASE c = 0 -> col.B [] c = 1 -> col.G [] c = 2 -> col.R)

\* Byte i of the host pixel buffer.  The BMP host holds the pixel array of
\* the file: hostLen bytes in height rows, each row its pixels and then zero
\* padding; the other two hold the pixels back to back.
HostByte(v, pat, st, w, h, len, i) ==
    IF pat = "ramp" THEN (37 * i + 11) % 256
    ELSE IF v = "bmp"
         THEN LET p == i % (len \div h) IN
              IF p >= w * st THEN 0 ELSE ChannelByte(v, Colour(pat), st, p % st)
         ELSE ChannelByte(v, Colour(pat), st, i % st)

\* The values a read outside the bytes that were uploaded may give.
GarbageBytes == {0, 255}

\* The kernel's indices: int idx = (y * width + x) * channels, and
\* int gray_idx = y * width + x.
InputIdx(x, y, w, n) == (y * w + x) * n
OutputIdxByHeight(x, y, w, h) == y * h + x
OutputIdx(x, y, w, h) == y * w + x

----------------------------------------------------------------------------
\* The kernel's arithmetic.  A single-precision value is held exactly, as a
\* multiple of 2^-27 written <<hi, lo>> = hi * 2^16 + lo; every product and
\* sum of the kernel is such a multiple below 2^35.

RECURSIVE Pow2(_)
Pow2(n) == IF n = 0 THEN 1 ELSE 2 * Pow2(n - 1)
RECURSIVE BitLen(_)
BitLen(n) == IF n = 0 THEN 0 ELSE 1 + BitLen(n \div 2)
Norm(hi, lo) == <<hi + lo \div Pow2(16), lo % Pow2(16)>>
FixAdd(a, b) == Norm(a[1] + b[1], a[2] + b[2])
FixMul(c, v) == Norm(c[1] * v, c[2] * v)

\* Rounding to single precision: 24 significant bits, ties to even.
RoundF32(a) ==
    IF a[1] < 256 THEN a
    ELSE LET d == BitLen(a[1]) - 8
             q == a[1] * Pow2(16 - d) + a[2] \div Pow2(d)
             rem == a[2] % Pow2(d)
             half == Pow2(d - 1)
             up == rem > half \/ (rem = half /\ q % 2 = 1)
             q1 == IF up THEN q + 1 ELSE q
         IN  <<q1 \div Pow2(16 - d), (q1 % Pow2(16 - d)) * Pow2(d)>>

\* The conversion (uchar): the integer part, in eight bits.
ToUchar(a) == (a[1] \div 2048) % 256

\* The constants 0.299f, 0.587f and 0.114f: 40131100, 78785808 and 15300821
\* times 2^-27.
WeightRed == <<612, 23068>>
WeightGreen == <<1202, 11536>>
WeightBlue == <<233, 30933>>

\* uchar gray = (uchar)(0.299f * red + 0.587f * green + 0.114f * blue).  The
\* build may round every product and sum, or contract each a * b + c into a
\* fused multiply-add with one rounding.
Gray(fsd, red, green, blue) ==
    LET pr == RoundF32(FixMul(WeightRed, red))
        pg == FixMul(WeightGreen, green)
        pb == FixMul(WeightBlue, blue)
        s1 == RoundF32(FixAdd(pr, IF fsd THEN pg ELSE RoundF32(pg)))
        s2 == RoundF32(FixAdd(s1, IF fsd THEN pb ELSE RoundF32(pb)))
    IN  ToUchar(s2)

----------------------------------------------------------------------------
\* Position of resource r in sequence s (0 when absent).
Pos(s, r) == IF \E i \in 1 .. Len(s) : s[i] = r
             THEN CHOOSE i \in 1 .. Len(s) : s[i] = r
             ELSE 0

----------------------------------------------------------------------------
\* Results the runtime can give to each call.

GetPlatformResult == IF platforms = 0 THEN {CL_PLATFORM_NOT_FOUND_KHR}
                     ELSE {CL_SUCCESS, CL_OUT_OF_HOST_MEMORY}
GetDeviceResult == IF gpuDevices = 0 THEN {CL_DEVICE_NOT_FOUND}
                   ELSE {CL_SUCCESS, CL_OUT_OF_HOST_MEMORY}
CreateResult == {CL_SUCCESS, CL_OUT_OF_HOST_MEMORY}
BuildResult == {CL_SUCCESS, CL_BUILD_PROGRAM_FAILURE}
\* clCreateBuffer rejects size 0.
CreateBufferResult(size) == IF size = 0 THEN {CL_INVALID_BUFFER_SIZE}
                            ELSE {CL_SUCCESS, CL_MEM_OBJECT_ALLOCATION_FAILURE}
\* clEnqueueWriteBuffer rejects a buffer that is no valid memory object.
WriteResult == IF res["inputBuffer"] # "live" THEN {CL_INVALID_MEM_OBJECT}
               ELSE {CL_SUCCESS, CL_OUT_OF_RESOURCES}
CreateKernelResult == {CL_SUCCESS, CL_INVALID_KERNEL_NAME}
BindCodes == {CL_SUCCESS, CL_INVALID_MEM_OBJECT, CL_INVALID_ARG_SIZE}
\* Arguments 0 and 1 are the two buffers; 2, 3 and 4 are ints, which the
\* runtime never rejects as memory objects.
ArgCodes(i) == IF i <= 1 THEN BindCodes ELSE BindCodes \ {CL_INVALID_MEM_OBJECT}
LaunchResult == {CL_SUCCESS, CL_OUT_OF_RESOURCES}
\* clEnqueueReadBuffer rejects a region that leaves the buffer.
ReadResult(size) == IF size > outSize THEN {CL_INVALID_VALUE}
                    ELSE {CL_SUCCESS, CL_OUT_OF_RESOURCES}

\* The values a read of byte i of the input buffer may give: the byte the
\* upload copied there from the host pixel buffer, or anything when i lies
\* outside the buffer or outside the host pixel buffer.
InputBuffer(i) ==
    IF i < inSize /\ i < hostLen
    THEN {HostByte(variant, pattern, stride, width, height, hostLen, i)}
    ELSE GarbageBytes

----------------------------------------------------------------------------
\* Pieces of the host's steps.

\* One OpenCL call and its result, appended to the log.
Call(api, what, r) == calls' = Append(calls, [api |-> api, what |-> what, code |-> r])

\* Variation: what was printed before checkError is lost.
checkErrorAfterLost(out, e, msg, next) ==
    IF Failed(e)
    THEN /\ stderr' = Append(stderr, ErrLine(variant, msg, e))
         /\ exitCode' = ExitOnError
         /\ pc' = "exited"
    ELSE /\ pc' = next
         /\ UNCHANGED <<stderr, exitCode>>
\* checkError(e, msg) called when the error stream holds out; the next
\* statement follows when it returns.
checkErrorAfter(out, e, msg, next) ==
    IF Failed(e)
    THEN /\ stderr' = Append(out, ErrLine(variant, msg, e))
         /\ exitCode' = ExitOnError
         /\ pc' = "exited"
    ELSE /\ pc' = next
         /\ stderr' = out
         /\ UNCHANGED exitCode

\* checkError(e, msg), then the next statement.
checkError(e, msg, next) == checkErrorAfter(stderr, e, msg, next)

\* A clCreate* call: the handle is valid exactly when the call succeeded.
Create(r, code) ==
    IF code = CL_SUCCESS
    THEN /\ res' = [res EXCEPT ![r] = "live"]
         /\ createOrder' = Append(createOrder, r)
    ELSE UNCHANGED <<res, createOrder>>

Init ==
    /\ variant \in Variants
    /\ platforms \in 0 .. 1
    /\ gpuDevices \in 0 .. 1
    /\ pc = "load"
    /\ err = 0
    /\ width = 0 /\ height = 0 /\ channels = 0 /\ hostLen = 0
    /\ stride = 0 /\ pattern = "none" /\ fused = FALSE
    /\ inSize = 0 /\ outSize = 0
    /\ res = [r \in Resources |-> "null"]
    /\ createOrder = <<>> /\ releaseOrder = <<>>
    /\ calls = <<>>
    /\ stderr = <<>> /\ stdout = <<>>
    /\ exitCode = 0
    /\ writerInvoked = FALSE /\ outputFile = FALSE /\ savedBytes = 0
    /\ devQueue = <<>>
    /\ uploadDone = FALSE /\ wiDone = {} /\ work = {} /\ readDone = FALSE

----------------------------------------------------------------------------
\* The host: main(), one action per statement group.

\* The image loader.  The BMP host reads the header fields from the file and
\* exits with 1 when the file is missing or is no BMP; the stb_image host asks
\* for three bytes per pixel and gets the file's own channel count in
\* channels; the OpenCV host gets a three-channel matrix.  The latter two
\* return -1 when the image cannot be loaded.
LoadBMP ==
    /\ pc = "load" /\ variant = "bmp"
    /\ \/ /\ \E text \in {"Error: Unable to open file %s.\n", "Error: Not a BMP file.\n"} :
                stderr' = Append(stderr, PlainLine(text))
          /\ exitCode' = 1
          /\ pc' = "exited"
          /\ UNCHANGED image
       \/ /\ \E <<w, h>> \in Sizes, bits \in {8, 24, 32} :
                \E sz \in BmpSizes(w, h, bits) :
                    /\ width' = w /\ height' = h
                    /\ channels' = bits \div 8
                    /\ hostLen' = sz
                    /\ stride' = bits \div 8
          /\ pattern' \in Patterns
          /\ pc' = "getPlatform"
          /\ UNCHANGED <<stderr, exitCode>>
    /\ UNCHANGED <<variant, platforms, gpuDevices, fused, err, inSize, outSize, handles,
                   calls, stdout, writerInvoked, outputFile, savedBytes, device>>

LoadSTB ==
    /\ pc = "load" /\ variant = "stb"
    /\ \/ /\ stderr' = Append(stderr, PlainLine("Error: Could not load JPG image.\n"))
          /\ exitCode' = -1
          /\ pc' = "exited"
          /\ UNCHANGED image
       \/ /\ \E <<w, h>> \in Sizes, n \in {1, 3, 4} :
                /\ width' = w /\ height' = h
                /\ channels' = n
                /\ hostLen' = w * h * 3
                /\ stride' = 3
          /\ pattern' \in Patterns
          /\ pc' = "getPlatform"
          /\ UNCHANGED <<stderr, exitCode>>
    /\ UNCHANGED <<variant, platforms, gpuDevices, fused, err, inSize, outSize, handles,
                   calls, stdout, writerInvoked, outputFile, savedBytes, device>>

LoadCV ==
    /\ pc = "load" /\ variant = "cv"
    /\ \/ /\ stderr' = Append(stderr, PlainLine("Error: Could not load image.\n"))
          /\ exitCode' = -1
          /\ pc' = "exited"
          /\ UNCHANGED image
       \/ /\ \E <<w, h>> \in Sizes :
                /\ width' = w /\ height' = h
                /\ channels' = 3
                /\ hostLen' = w * h * 3
                /\ stride' = 3
          /\ pattern' \in Patterns
          /\ pc' = "getPlatform"
          /\ UNCHANGED <<stderr, exitCode>>
    /\ UNCHANGED <<variant, platforms, gpuDevices, fused, err, inSize, outSize, handles,
                   calls, stdout, writerInvoked, outputFile, savedBytes, device>>

\* err = clGetPlatformIDs(1, &platform, &numPlatforms); checkError.
GetPlatform ==
    /\ pc = "getPlatform"
    /\ \E r \in GetPlatformResult :
         /\ err' = r
         /\ Call("clGetPlatformIDs", "platform", r)
         /\ checkError(r, "Getting platform", "getDevice")
    /\ UNCHANGED <<variant, platforms, gpuDevices, fused, image, inSize, outSize, handles,
                   stdout, writerInvoked, outputFile, savedBytes, device>>

\* err = clGetDeviceIDs(platform, CL_DEVICE_TYPE_GPU, 1, &device, ...); checkError.
GetDevice ==
    /\ pc = "getDevice"
    /\ \E r \in GetDeviceResult :
         /\ err' = r
         /\ Call("clGetDeviceIDs", "device", r)
         /\ checkError(r, "Getting device", "createContext")
    /\ UNCHANGED <<variant, platforms, gpuDevices, fused, image, inSize, outSize, handles,
                   stdout, writerInvoked, outputFile, savedBytes, device>>

\* context = clCreateContext(..., &err); checkError.
CreateContext ==
    /\ pc = "createContext"
    /\ \E r \in CreateResult :
         /\ err' = r
         /\ Call("clCreateContext", "context", r)
         /\ Create("context", r)
         /\ checkError(r, "Creating context", "createQueue")
    /\ releaseOrder' = releaseOrder
    /\ UNCHANGED <<variant, platforms, gpuDevices, fused, image, inSize, outSize,
                   stdout, writerInvoked, outputFile, savedBytes, device>>

\* queue = clCreateCommandQueue[WithProperties](context, device, 0, &err); checkError.
CreateQueue ==
    /\ pc = "createQueue"
    /\ \E r \in CreateResult :
         /\ err' = r
         /\ Call("clCreateCommandQueue", "queue", r)
         /\ Create("queue", r)
         /\ checkError(r, "Creating command queue", "createProgram")
    /\ releaseOrder' = releaseOrder
    /\ UNCHANGED <<variant, platforms, gpuDevices, fused, image, inSize, outSize,
                   stdout, writerInvoked, outputFile, savedBytes, device>>

\* program = clCreateProgramWithSource(context, 1, &kernelCode, NULL, &err); checkError.
CreateProgram ==
    /\ pc = "createProgram"
    /\ \E r \in CreateResult :
         /\ err' = r
         /\ Call("clCreateProgramWithSource", "program", r)
         /\ Create("program", r)
         /\ checkError(r, "Creating program", "buildProgram")
    /\ releaseOrder' = releaseOrder
    /\ UNCHANGED <<variant, platforms, gpuDevices, fused, image, inSize, outSize,
                   stdout, writerInvoked, outputFile, savedBytes, device>>

\* err = clBuildProgram(program, ...); on failure the build log is fetched
\* and printed, then checkError(err, "Building program").
BuildProgram ==
    /\ pc = "buildProgram"
    /\ \E r \in BuildResult :
         /\ err' = r
         /\ Call("clBuildProgram", "program", r)
         /\ IF r # CL_SUCCESS
            THEN checkErrorAfter(Append(stderr, BuildLogLine), r,
                                 "Building program", "createInput")
            ELSE /\ pc' = "createInput"
                 /\ UNCHANGED <<stderr, exitCode>>
         /\ fused' \in (IF r = CL_SUCCESS THEN BOOLEAN ELSE {fused})
    /\ UNCHANGED <<variant, platforms, gpuDevices, image, inSize, outSize, handles,
                   stdout, writerInvoked, outputFile, savedBytes, device>>

\* inputBuffer = clCreateBuffer(context, CL_MEM_READ_ONLY, size, NULL, &err).
\* Only the BMP host checks err here; in the other two the next
\* clCreateBuffer overwrites it.
CreateInputBuffer ==
    /\ pc = "createInput"
    /\ LET size == InputBytes(variant, width, height, channels, hostLen) IN
       \E r \in CreateBufferResult(size) :
         /\ err' = r
         /\ Call("clCreateBuffer", "inputBuffer", r)
         /\ Create("inputBuffer", r)
         /\ inSize' = IF r = CL_SUCCESS THEN size ELSE inSize
         /\ IF variant = "bmp"
            THEN checkError(r, "Creating input buffer", "createOutput")
            ELSE /\ pc' = "createOutput"
                 /\ UNCHANGED <<stderr, exitCode>>
    /\ releaseOrder' = releaseOrder
    /\ UNCHANGED <<variant, platforms, gpuDevices, fused, image, outSize,
                   stdout, writerInvoked, outputFile, savedBytes, device>>

\* outputBuffer = clCreateBuffer(context, CL_MEM_WRITE_ONLY, size, NULL, &err);
\* checkError.
CreateOutputBuffer ==
    /\ pc = "createOutput"
    /\ LET size == OutputBytes(variant, width, height, channels) IN
       \E r \in CreateBufferResult(size) :
         /\ err' = r
         /\ Call("clCreateBuffer", "outputBuffer", r)
         /\ Create("outputBuffer", r)
         /\ outSize' = IF r = CL_SUCCESS THEN size ELSE outSize
         /\ checkError(r, IF variant = "bmp" THEN "Creating output buffer"
                                             ELSE "Creating buffers", "upload")
    /\ releaseOrder' = releaseOrder
    /\ UNCHANGED <<variant, platforms, gpuDevices, fused, image, inSize,
                   stdout, writerInvoked, outputFile, savedBytes, device>>

\* err = clEnqueueWriteBuffer(queue, inputBuffer, CL_TRUE, 0, size, data, ...):
\* the command is enqueued and the call blocks until the device completed it.
Upload ==
    /\ pc = "upload"
    /\ \E r \in WriteResult :
         /\ err' = r
         /\ Call("clEnqueueWriteBuffer", "inputBuffer", r)
         /\ IF r = CL_SUCCESS
            THEN /\ devQueue' = Append(devQueue, "write")
                 /\ pc' = "uploadWait"
                 /\ UNCHANGED <<stderr, exitCode>>
            ELSE /\ checkError(r, "Writing to input buffer", "createKernel")
                 /\ UNCHANGED devQueue
    /\ UNCHANGED <<variant, platforms, gpuDevices, fused, image, inSize, outSize, handles,
                   stdout, writerInvoked, outputFile, savedBytes, uploadDone, wiDone, work, readDone>>

\* The blocking write returns; checkError(err, "Writing to input buffer").
UploadReturn ==
    /\ pc = "uploadWait"
    /\ uploadDone
    /\ checkError(err, "Writing to input buffer", "createKernel")
    /\ UNCHANGED <<variant, platforms, gpuDevices, fused, err, image, inSize, outSize,
                   handles, calls, stdout, writerInvoked, outputFile, savedBytes, device>>

\* kernel = clCreateKernel(program, "rgb_to_gray", &err); checkError.
CreateKernel ==
    /\ pc = "createKernel"
    /\ \E r \in CreateKernelResult :
         /\ err' = r
         /\ Call("clCreateKernel", "kernel", r)
         /\ Create("kernel", r)
         /\ checkError(r, "Creating kernel", "setArgs")
    /\ releaseOrder' = releaseOrder
    /\ UNCHANGED <<variant, platforms, gpuDevices, fused, image, inSize, outSize,
                   stdout, writerInvoked, outputFile, savedBytes, device>>

\* err = clSetKernelArg(kernel, 0, ...); err |= clSetKernelArg(kernel, 1, ...);
\* ... err |= clSetKernelArg(kernel, 4, ...); checkError.
SetKernelArgs ==
    /\ pc = "setArgs"
    /\ \E r \in {f \in [0 .. 4 -> BindCodes] : \A i \in 0 .. 4 : f[i] \in ArgCodes(i)} :
         LET e == BitOr(BitOr(BitOr(BitOr(r[0], r[1]), r[2]), r[3]), r[4]) IN
         /\ err' = e
         /\ calls' = calls \o [i \in 1 .. 5 |->
                        [api |-> "clSetKernelArg", what |-> "kernel", code |-> r[i - 1]]]
         /\ checkError(e, "Setting kernel arguments", "launch")
    /\ UNCHANGED <<variant, platforms, gpuDevices, fused, image, inSize, outSize, handles,
                   stdout, writerInvoked, outputFile, savedBytes, device>>

\* err = clEnqueueNDRangeKernel(queue, kernel, 2, NULL, globalWorkSize, ...);
\* checkError.  The call returns once the command is enqueued.
Launch ==
    /\ pc = "launch"
    /\ \E r \in LaunchResult :
         /\ err' = r
         /\ Call("clEnqueueNDRangeKernel", "kernel", r)
         /\ devQueue' = IF r = CL_SUCCESS THEN Append(devQueue, "kernel") ELSE devQueue
         /\ checkError(r, LaunchMessage(variant), "readback")
    /\ UNCHANGED <<variant, platforms, gpuDevices, fused, image, inSize, outSize, handles,
                   stdout, writerInvoked, outputFile, savedBytes, uploadDone, wiDone, work, readDone>>

\* Variation: the result of clEnqueueReadBuffer is not checked.
ReadbackUnchecked ==
    /\ pc = "readback"
    /\ \E r \in ReadResult(ReadBytes(width, height)) :
         /\ err' = r
         /\ Call("clEnqueueReadBuffer", "outputBuffer", r)
         /\ IF r = CL_SUCCESS
            THEN /\ devQueue' = Append(devQueue, "read")
                 /\ pc' = "readWait"
            ELSE /\ pc' = "save"
                 /\ UNCHANGED devQueue
    /\ UNCHANGED <<variant, platforms, gpuDevices, fused, image, inSize, outSize, handles,
                   output, uploadDone, wiDone, work, readDone>>
\* grayImage = malloc(width * height); err = clEnqueueReadBuffer(queue,
\* outputBuffer, CL_TRUE, 0, width * height, grayImage, ...): enqueued, and
\* the call blocks until the device completed it.
Readback ==
    /\ pc = "readback"
    /\ \E r \in ReadResult(ReadBytes(width, height)) :
         /\ err' = r
         /\ Call("clEnqueueReadBuffer", "outputBuffer", r)
         /\ IF r = CL_SUCCESS
            THEN /\ devQueue' = Append(devQueue, "read")
                 /\ pc' = "readWait"
                 /\ UNCHANGED <<stderr, exitCode>>
            ELSE /\ checkError(r, "Reading from output buffer", "save")
                 /\ UNCHANGED devQueue
    /\ UNCHANGED <<variant, platforms, gpuDevices, fused, image, inSize, outSize, handles,
                   stdout, writerInvoked, outputFile, savedBytes, uploadDone, wiDone, work, readDone>>

\* The blocking read returns; checkError(err, "Reading from output buffer").
ReadbackReturn ==
    /\ pc = "readWait"
    /\ readDone
    /\ checkError(err, "Reading from output buffer", "save")
    /\ UNCHANGED <<variant, platforms, gpuDevices, fused, err, image, inSize, outSize,
                   handles, calls, stdout, writerInvoked, outputFile, savedBytes, device>>

\* The image writer.  It puts SaveBytes bytes of the result buffer in the
\* file.  saveBMP exits with 1 when the file cannot be opened;
\* the results of stbi_write_jpg and cv::imwrite are not looked at.
Save ==
    /\ pc = "save"
    /\ writerInvoked' = TRUE
    /\ \/ /\ outputFile' = TRUE
          /\ savedBytes' = SaveBytes(variant, width, height, hostLen)
          /\ pc' = "release"
          /\ UNCHANGED <<stderr, exitCode>>
       \/ /\ outputFile' = outputFile
          /\ savedBytes' = savedBytes
          /\ IF variant = "bmp"
             THEN /\ stderr' = Append(stderr,
                         PlainLine("Error: Unable to open file %s for writing.\n"))
                  /\ exitCode' = 1
                  /\ pc' = "exited"
             ELSE /\ pc' = "release"
                  /\ UNCHANGED <<stderr, exitCode>>
    /\ UNCHANGED <<variant, platforms, gpuDevices, fused, err, image, inSize, outSize,
                   handles, calls, stdout, device>>

\* The cleanup: the next clRelease* call of the list.
Release ==
    /\ pc = "release"
    /\ Len(releaseOrder) < Len(ReleaseOrder)
    /\ LET r == ReleaseOrder[Len(releaseOrder) + 1] IN
         /\ res' = [res EXCEPT ![r] = "released"]
         /\ releaseOrder' = Append(releaseOrder, r)
         /\ Call("clRelease", r, CL_SUCCESS)
    /\ UNCHANGED <<variant, platforms, gpuDevices, fused, pc, err, image, inSize, outSize,
                   createOrder, output, device>>

\* printf("Grayscale image has been generated.\n"); return 0.
Finish ==
    /\ pc = "release"
    /\ Len(releaseOrder) = Len(ReleaseOrder)
    /\ stdout' = Append(stdout, PlainLine("Grayscale image has been generated.\n"))
    /\ exitCode' = 0
    /\ pc' = "exited"
    /\ UNCHANGED <<variant, platforms, gpuDevices, fused, err, image, inSize, outSize,
                   handles, calls, stderr, writerInvoked, outputFile, savedBytes, device>>

----------------------------------------------------------------------------
\* The device: it executes the commands of the queue while the process lives.

Remove(q, i) == [j \in 1 .. Len(q) - 1 |-> IF j < i THEN q[j] ELSE q[j + 1]]

\* The write of the host pixels into the input buffer completes.
DevWrite ==
    /\ pc # "exited"
    /\ \E i \in Runnable(devQueue) :
         /\ devQueue[i] = "write"
         /\ devQueue' = Remove(devQueue, i)
    /\ uploadDone' = TRUE
    /\ UNCHANGED <<variant, platforms, gpuDevices, fused, pc, err, image, inSize, outSize,
                   handles, calls, output, wiDone, work, readDone>>

\* One work-item of rgb_to_gray runs: it reads the three bytes of its pixel
\* from the input buffer, computes gray and writes it to the output buffer.
\* The kernel command completes with its last work-item.
DevWorkItem ==
    /\ pc # "exited"
    /\ \E i \in Runnable(devQueue) :
         /\ devQueue[i] = "kernel"
         /\ \E g \in Grid(width, height) \ wiDone :
              LET x == g[1]
                  y == g[2]
                  idx == InputIdx(x, y, width, channels)
              IN  \E blue \in InputBuffer(idx), green \in InputBuffer(idx + 1),
                     red \in InputBuffer(idx + 2) :
                    /\ work' = work \cup
                          {[x |-> x, y |-> y, idx |-> idx, blue |-> blue,
                            green |-> green, red |-> red,
                            gray_idx |-> OutputIdx(x, y, width, height),
                            gray |-> Gray(fused, red, green, blue)]}
                    /\ wiDone' = wiDone \cup {g}
                    /\ devQueue' = IF wiDone' = Grid(width, height)
                                   THEN Remove(devQueue, i) ELSE devQueue
    /\ UNCHANGED <<variant, platforms, gpuDevices, fused, pc, err, image, inSize,
                   outSize, handles, calls, output, uploadDone, readDone>>

\* The read of the output buffer into grayImage completes.
DevRead ==
    /\ pc # "exited"
    /\ \E i \in Runnable(devQueue) :
         /\ devQueue[i] = "read"
         /\ devQueue' = Remove(devQueue, i)
    /\ readDone' = TRUE
    /\ UNCHANGED <<variant, platforms, gpuDevices, fused, pc, err, image, inSize, outSize,
                   handles, calls, output, uploadDone, wiDone, work>>

----------------------------------------------------------------------------
Next ==
    \/ LoadBMP \/ LoadSTB \/ LoadCV
    \/ GetPlatform \/ GetDevice \/ CreateContext \/ CreateQueue
    \/ CreateProgram \/ BuildProgram
    \/ CreateInputBuffer \/ CreateOutputBuffer
    \/ Upload \/ UploadReturn
    \/ CreateKernel \/ SetKernelArgs
    \/ Launch \/ Readback \/ ReadbackReturn
    \/ Save \/ Release \/ Finish
    \/ DevWrite \/ DevWorkItem \/ DevRead

Spec == Init /\ [][Next]_vars

----------------------------------------------------------------------------
\* Vocabulary of the properties.

\* The run ended by main() returning 0 after the confirmation line.
Succeeded == pc = "exited" /\ stdout # <<>>

\* The loader gave main() an image.
Loaded == width > 0

\* The positions of the log that hold a call of that API.
CallsOf(api) == {i \in 1 .. Len(calls) : calls[i].api = api}

\* The positions of the log whose call reported an error.
FailedCalls == {i \in 1 .. Len(calls) : calls[i].code # CL_SUCCESS}

\* The calls of the core steps, device selection through readback.
CoreAPIs == {"clGetPlatformIDs", "clGetDeviceIDs", "clCreateContext",
             "clCreateCommandQueue", "clCreateProgramWithSource", "clBuildProgram",
             "clCreateBuffer", "clEnqueueWriteBuffer", "clCreateKernel",
             "clSetKernelArg", "clEnqueueNDRangeKernel", "clEnqueueReadBuffer"}

\* The lines the hosts print for a loader or writer failure.
PlainErrorFormats == {"Error: Unable to open file %s.\n", "Error: Not a BMP file.\n",
                      "Error: Could not load JPG image.\n", "Error: Could not load image.\n",
                      "Error: Unable to open file %s for writing.\n"}

LastLine(out) == out[Len(out)]

----------------------------------------------------------------------------
\* C1: a device buffer is never read before the write it depends on has
\* completed: a work-item has run only if the upload of the input buffer is
\* complete, and the readback of the output buffer is complete only if every
\* work-item of the (width, height) grid has run.
C1_NoReadBeforeWrite ==
    /\ wiDone # {} => uploadDone
    /\ "kernel" \in {devQueue[i] : i \in 1 .. Len(devQueue)} => uploadDone
    /\ readDone => wiDone = Grid(width, height)

\* C1 witness: the readback of a 2 x 2 image completed after all four
\* work-items.
C1_Witness ==
    /\ readDone /\ uploadDone
    /\ width = 2 /\ height = 2
    /\ Cardinality(wiDone) = 4

\* C2: once the output buffer exists, it was created with width * height
\* bytes, whatever the channel count.
C2_OutputBufferIsWidthTimesHeight ==
    res["outputBuffer"] = "live" => outSize = width * height

\* C3: when the process has exited, no device resource that was created is
\* left unreleased.
C3_AllReleasedAtExit ==
    pc = "exited" => \A r \in Resources : res[r] # "live"

\* C4 as stated: on the success path, of two resources the one created
\* earlier is released later.
C4_StrictReverseOrder ==
    Succeeded =>
        \A a, b \in Resources :
            Pos(createOrder, a) < Pos(createOrder, b)
                => Pos(releaseOrder, b) < Pos(releaseOrder, a)

\* The pairs (a, b), a created before b, that the cleanup releases in
\* creation order.
C4_Exceptions == {<<"program", "inputBuffer">>, <<"program", "outputBuffer">>,
                  <<"inputBuffer", "outputBuffer">>}

\* C4 amended: on the success path all six resources were created and
\* released, and of two resources the one created earlier is released later,
\* except that the program is released before both buffers and the input
\* buffer before the output buffer.
C4_ReverseOrderExceptProgramAndBuffers ==
    Succeeded =>
        /\ \A r \in Resources : Pos(createOrder, r) > 0 /\ Pos(releaseOrder, r) > 0
        /\ Len(createOrder) = 6 /\ Len(releaseOrder) = 6
        /\ \A a, b \in Resources :
              Pos(createOrder, a) < Pos(createOrder, b)
                  => IF <<a, b>> \in C4_Exceptions
                     THEN Pos(releaseOrder, a) < Pos(releaseOrder, b)
                     ELSE Pos(releaseOrder, b) < Pos(releaseOrder, a)

\* C4 witness: a run that succeeded with all six resources released.
C4_Witness == Succeeded /\ Len(releaseOrder) = 6 /\ releaseOrder[6] = "context"

\* C5: no step is issued after a step that reported an error; the five
\* argument binds count as one step.
C5_FirstFailureTerminates ==
    \A i, j \in 1 .. Len(calls) :
        (i < j /\ calls[i].code # CL_SUCCESS)
            => (calls[i].api = "clSetKernelArg" /\ calls[j].api = "clSetKernelArg")

\* C6: when a core step reported an error the writer is never invoked and no
\* output file exists; when the writer was invoked, every core step was
\* issued and succeeded and the readback is complete.
C6_NoOutputAfterFailure ==
    /\ FailedCalls # {} => ~writerInvoked /\ ~outputFile
    /\ outputFile => writerInvoked
    /\ writerInvoked =>
          /\ \A api \in CoreAPIs : CallsOf(api) # {}
          /\ FailedCalls = {}
          /\ readDone /\ wiDone = Grid(width, height)

\* C6 witness: the output file was written.
C6_Witness == writerInvoked /\ outputFile /\ Succeeded

\* C7: with no platform, or no GPU device on the first platform, a run whose
\* image was loaded creates no resource and no output file, issues nothing
\* after device selection, and ends with exit status 1 and one diagnostic
\* line that names the failed step.
C7_AbortAtDeviceSelection ==
    (Loaded /\ (platforms = 0 \/ gpuDevices = 0)) =>
        /\ createOrder = <<>> /\ \A r \in Resources : res[r] = "null"
        /\ ~writerInvoked /\ ~outputFile
        /\ \A i \in 1 .. Len(calls) : calls[i].api \in {"clGetPlatformIDs", "clGetDeviceIDs"}
        /\ pc \in {"getPlatform", "getDevice", "exited"}
        /\ pc = "exited" =>
              /\ ExitStatus(exitCode) = 1
              /\ Len(stderr) = 1
              /\ stderr[1] = ErrLine(variant,
                                     IF calls[Len(calls)].api = "clGetPlatformIDs"
                                     THEN "Getting platform"
                                     ELSE "Getting device", err)
              /\ err # CL_SUCCESS
              /\ platforms = 0 => Len(calls) = 1

\* C7 witness: a platform without a GPU device, and the run has exited.
C7_Witness ==
    /\ Loaded /\ platforms = 1 /\ gpuDevices = 0
    /\ pc = "exited" /\ exitCode = 1
    /\ stderr[1].msg = "Getting device"

\* C8 as stated: every run that does not succeed ends with exit status 1
\* and a last error line of the form "Error: <step> (Error code: <n>)"; a
\* run that succeeds ends with exit status 0.
C8_ErrorLineAndStatusOne ==
    pc = "exited" =>
        IF Succeeded
        THEN ExitStatus(exitCode) = 0
        ELSE /\ ExitStatus(exitCode) = 1
             /\ stderr # <<>>
             /\ LastLine(stderr).fmt = "Error: %s (Error code: %d)\n"

\* C8 amended: a run that succeeds ends with exit status 0.  A failing core
\* step ends the run with exit status 1 and a last line "Error: <step>
\* (Error code: <n>)", n the failing status, which the OpenCV host spells
\* "(error code: <n>)".  A loader or writer failure ends the run with a line
\* "Error: ..." that carries no error code, and with exit status 1 in the
\* BMP host and 255 (main returns -1) in the other two.
C8_ErrorLinePerVariant ==
    pc = "exited" =>
        IF Succeeded
        THEN ExitStatus(exitCode) = 0 /\ FailedCalls = {}
        ELSE /\ stderr # <<>>
             /\ IF FailedCalls # {}
                THEN /\ ExitStatus(exitCode) = 1
                     /\ LastLine(stderr).fmt =
                            (IF variant = "cv" THEN "Error: %s (error code: %d)\n"
                                               ELSE "Error: %s (Error code: %d)\n")
                     /\ LastLine(stderr).code = err
                     /\ err # CL_SUCCESS
                ELSE /\ calls = <<>> \/ (variant = "bmp" /\ writerInvoked)
                     /\ LastLine(stderr).fmt \in PlainErrorFormats
                     /\ ExitStatus(exitCode) = (IF variant = "bmp" THEN 1 ELSE 255)

\* C8 witness: the OpenCV host ended on a failing core step.
C8_Witness ==
    /\ pc = "exited" /\ variant = "cv" /\ FailedCalls # {}
    /\ ExitStatus(exitCode) = 1

\* C9: when clBuildProgram failed, the error stream holds the build log
\* line and then the "Building program" error line, the run has exited and
\* the build is the last call issued; when no build failed, no build log
\* line is on the error stream.
C9_BuildLogBeforeAbort ==
    LET failedBuilds == CallsOf("clBuildProgram") \cap FailedCalls IN
    IF failedBuilds # {}
    THEN /\ pc = "exited" /\ ExitStatus(exitCode) = 1
         /\ stderr = <<BuildLogLine, ErrLine(variant, "Building program", err)>>
         /\ failedBuilds = {Len(calls)}
         /\ res["inputBuffer"] = "null" /\ res["outputBuffer"] = "null"
         /\ res["kernel"] = "null"
         /\ devQueue = <<>> /\ ~uploadDone /\ wiDone = {} /\ ~readDone
    ELSE \A i \in 1 .. Len(stderr) : stderr[i] # BuildLogLine

\* C9 witness: a build failed and its log was written.
C9_Witness ==
    /\ CallsOf("clBuildProgram") \cap FailedCalls # {}
    /\ stderr[1] = BuildLogLine

\* C10: when one of the five binds failed, err is non-zero, the run has
\* exited with the "Setting kernel arguments" line and no launch was
\* issued; a launch is issued only after five binds that all succeeded.
C10_BindAllOrNothing ==
    LET binds == CallsOf("clSetKernelArg") IN
    /\ binds \cap FailedCalls # {} =>
          /\ err # CL_SUCCESS
          /\ pc = "exited" /\ ExitStatus(exitCode) = 1
          /\ LastLine(stderr) = ErrLine(variant, "Setting kernel arguments", err)
          /\ CallsOf("clEnqueueNDRangeKernel") = {}
          /\ devQueue = <<>> /\ wiDone = {}
    /\ CallsOf("clEnqueueNDRangeKernel") # {} =>
          /\ Cardinality(binds) = 5
          /\ binds \cap FailedCalls = {}

\* C10 witness: the second bind failed and the last one succeeded.
C10_Witness ==
    /\ pc = "exited"
    /\ Len(calls) >= 5
    /\ calls[Len(calls)].api = "clSetKernelArg" /\ calls[Len(calls)].code = CL_SUCCESS
    /\ calls[Len(calls) - 3].api = "clSetKernelArg"
    /\ calls[Len(calls) - 3].code # CL_SUCCESS
    /\ calls[Len(calls) - 4].code = CL_SUCCESS

----------------------------------------------------------------------------
\* Vocabulary of the kernel's properties.

\* Every work-item of the launch has run.
KernelDone == Loaded /\ wiDone = Grid(width, height)

\* The work-items that wrote output offset o.
WritersOf(o) == {k \in work : k.gray_idx = o}

\* The bytes of the input buffer that hold uploaded host data.
Uploaded(i) == 0 <= i /\ i < inSize /\ i < hostLen

\* The work-item read its three bytes from uploaded data.
ReadsInBounds(k) == Uploaded(k.idx) /\ Uploaded(k.idx + 2)

\* C11: the work-items that have run are pixels of the (width, height)
\* grid, one per pixel, and each wrote at offset y * width + x; when the
\* kernel has completed, every offset of 0 .. width * height - 1 has been
\* written by exactly one work-item, and in the hosts of src/host.c every
\* such offset lies inside the output buffer.
C11_EveryOffsetWrittenOnce ==
    /\ wiDone \subseteq Grid(width, height)
    /\ {<<k.x, k.y>> : k \in work} = wiDone
    /\ Cardinality(work) = Cardinality(wiDone)
    /\ \A k \in work : k.gray_idx = k.y * width + k.x
    /\ KernelDone =>
          /\ \A o \in 0 .. width * height - 1 : Cardinality(WritersOf(o)) = 1
          /\ \A k \in work : k.gray_idx \in 0 .. width * height - 1
          /\ variant # "cv" => \A k \in work : k.gray_idx < outSize

\* C11 witness: the kernel has completed on a 3x2 image.
C11_Witness == KernelDone /\ width = 3 /\ height = 2 /\ variant = "bmp"

\* Byte i of the host pixel buffer of this run.
Host(i) == HostByte(variant, pattern, stride, width, height, hostLen, i)

\* The gray value the kernel computes from the host bytes at idx, idx + 1
\* and idx + 2.
GrayOfHost(idx) == Gray(fused, Host(idx + 2), Host(idx + 1), Host(idx))

\* C12: whatever the order of the work-items, no two of them wrote the same
\* output offset, each read only bytes of the input buffer that hold
\* uploaded data (which no work-item writes), and the value each wrote is
\* the one the kernel computes from the host data, so that the output is a
\* function of the input alone.
C12_OutputDeterminedByInput ==
    \A k \in work :
        /\ WritersOf(k.gray_idx) = {k}
        /\ ReadsInBounds(k)
        /\ k.gray = GrayOfHost(k.idx)

\* C13: every work-item that has run read blue, green and red from input
\* bytes idx, idx + 1 and idx + 2 with idx = (y * width + x) * channels,
\* and wrote at offset y * width + x the integer part of
\* 0.299 red + 0.587 green + 0.114 blue; every output byte of a white image
\* is 255 and every output byte of a black image is 0.
C13_GrayIsTruncatedWeightedSum ==
    \A k \in work :
        /\ k.idx = (k.y * width + k.x) * channels
        /\ k.gray_idx = k.y * width + k.x
        /\ Uploaded(k.idx) => k.blue = Host(k.idx)
        /\ Uploaded(k.idx + 1) => k.green = Host(k.idx + 1)
        /\ Uploaded(k.idx + 2) => k.red = Host(k.idx + 2)
        /\ k.gray = Luma(k.red, k.green, k.blue)
        /\ pattern = "white" => k.gray = 255
        /\ pattern = "black" => k.gray = 0

\* The host pixel buffer holds width * height pixels of three bytes each,
\* back to back, and the kernel is told three channels.
PackedColour ==
    /\ pattern \in Patterns \ {"ramp"}
    /\ stride = 3 /\ channels = 3
    /\ hostLen = width * height * 3

\* C14: in every host, for a packed three-channel image of one colour,
\* every work-item that has run read the pixel's blue at idx, its green at
\* idx + 1 and its red at idx + 2; for the pure red image (255, 0, 0) it
\* wrote 76.
C14_ChannelOrderMatchesLoader ==
    PackedColour =>
        \A k \in work :
            /\ k.blue = Colour(pattern).B
            /\ k.green = Colour(pattern).G
            /\ k.red = Colour(pattern).R
            /\ pattern = "red" => k.gray = 76

\* C15: the input buffer that was created has the byte length of the host
\* pixel buffer, which is width * height * channels; an upload that was
\* issued transfers that many bytes and no more than the host pixel buffer
\* holds; the channel count that is bound to the kernel is the number of
\* bytes per pixel of the host data.
C15_InputBufferIsHostBuffer ==
    LET uploadBytes == InputBytes(variant, width, height, channels, hostLen) IN
    /\ res["inputBuffer"] # "null" =>
          /\ inSize = hostLen
          /\ inSize = width * height * channels
    /\ CallsOf("clEnqueueWriteBuffer") # {} => uploadBytes = hostLen
    /\ CallsOf("clSetKernelArg") # {} => channels = stride

\* C16: the context is the first resource created; while the queue, the
\* program, a buffer or the kernel is live, the context is live; when the
\* context has been released, each of the others was released before it;
\* and a run that succeeded has released the context.
C16_ContextOutlivesResources ==
    LET others == Resources \ {"context"} IN
    /\ createOrder # <<>> => createOrder[1] = "context"
    /\ \A r \in others : res[r] = "live" => res["context"] = "live"
    /\ Pos(releaseOrder, "context") > 0 =>
          \A r \in others :
              /\ Pos(createOrder, "context") < Pos(createOrder, r)
              /\ Pos(releaseOrder, r) > 0
              /\ Pos(releaseOrder, r) < Pos(releaseOrder, "context")
    /\ Succeeded => res["context"] = "released"

\* C16 witness: the cleanup has released the five other resources and the
\* context is still live.
C16_Witness ==
    /\ pc = "release"
    /\ Len(releaseOrder) = 5
    /\ res["context"] = "live"
    /\ \A r \in Resources \ {"context"} : res[r] = "released"

\* C17: every work-item that has run read its three bytes idx, idx + 1 and
\* idx + 2 inside the input buffer and wrote its byte inside the output
\* buffer, and a readback that was issued asks for no more bytes than the
\* output buffer holds.
C17_AccessesInsideBuffers ==
    /\ \A k \in work :
          /\ 0 <= k.idx /\ k.idx + 2 < inSize
          /\ 0 <= k.gray_idx /\ k.gray_idx < outSize
    /\ CallsOf("clEnqueueReadBuffer") # {} => ReadBytes(width, height) <= outSize

\* C18: when saveBMP has written the file, it took exactly width * height
\* bytes from the result buffer, and no more than the width * height bytes
\* the buffer holds.
C18_WriterReadsInsideResult ==
    variant = "bmp" /\ outputFile =>
        /\ savedBytes = width * height
        /\ savedBytes <= GrayBytes(width, height)

\* The resources a call of the log refers to.
RefersTo(c) ==
    CASE c.api = "clRelease" -> {c.what}
      [] c.api \in {"clCreateCommandQueue", "clCreateProgramWithSource",
                    "clCreateBuffer"} -> {"context"}
      [] c.api \in {"clBuildProgram", "clCreateKernel"} -> {"program"}
      [] c.api = "clEnqueueWriteBuffer" -> {"queue", "inputBuffer"}
      [] c.api = "clSetKernelArg" -> {"kernel", "inputBuffer", "outputBuffer"}
      [] c.api = "clEnqueueNDRangeKernel" ->
            {"queue", "kernel", "inputBuffer", "outputBuffer"}
      [] c.api = "clEnqueueReadBuffer" -> {"queue", "outputBuffer"}
      [] OTHER -> {}

\* The calls that create a resource.
CreateAPIs == {"clCreateContext", "clCreateCommandQueue", "clCreateProgramWithSource",
               "clCreateBuffer", "clCreateKernel"}

\* The positions of the log that hold the release of resource r.
ReleasesOf(r) == {i \in CallsOf("clRelease") : calls[i].what = r}

\* C19: every resource is released at most once, and only after the call
\* that created it succeeded; no call issued after the release of a
\* resource refers to that resource; and a resource counts as released
\* exactly when its release is in the log.
C19_NoUseAfterRelease ==
    \A r \in Resources :
        /\ Cardinality(ReleasesOf(r)) <= 1
        /\ res[r] = "released" <=> ReleasesOf(r) # {}
        /\ \A i \in ReleasesOf(r) :
              /\ \E j \in 1 .. i - 1 :
                    /\ calls[j].what = r
                    /\ calls[j].api \in CreateAPIs
                    /\ calls[j].code = CL_SUCCESS
              /\ Pos(createOrder, r) > 0
              /\ \A j \in i + 1 .. Len(calls) : r \notin RefersTo(calls[j])

\* C19 witness: after an upload, a launch and a readback the cleanup has
\* released the kernel, the program and the input buffer, and is about to
\* release the output buffer.
C19_Witness ==
    /\ pc = "release"
    /\ releaseOrder = <<"kernel", "program", "inputBuffer">>
    /\ CallsOf("clEnqueueReadBuffer") # {}
    /\ res["outputBuffer"] = "live"

============================================================================
